---- MODULE Spec2Model ----
(***************************************************************************)
(* Detection session controller of the YOLO detection desktop front end.   *)
(*                                                                         *)
(* The model follows the React component YoloApp (src/unnamed/part_003).   *)
(* One TLA+ step is one JavaScript run-to-completion segment: a user event *)
(* handler up to its first await, or the continuation that runs when an    *)
(* awaited backend call (Tauri invoke) or native dialog settles.           *)
(*                                                                         *)
(* React semantics that the model keeps:                                   *)
(*  - setState(prev => ...) updaters compose in call order, so the         *)
(*    component state is updated as if each updater were applied at once;  *)
(*  - a handler closes over the `state` constant of the render in which it *)
(*    was created.  A click runs the handler of the last committed render, *)
(*    so every read of `state.x` inside a handler (and inside the helpers  *)
(*    it calls) sees the value rendered when the click happened, however   *)
(*    long the handler has been suspended since;                           *)
(*  - a control can be clicked only while it is rendered and enabled.      *)
(*                                                                         *)
(* Numbers in [0,1] (confidences, thresholds) are integers in hundredths.  *)
(* Result entries keep className and confidence; timestamp, bbox and the   *)
(* message text are not modelled.                                          *)
(***************************************************************************)
EXTENDS Integers, Sequences, FiniteSets, Bags, TLC

\* ------------------------------------------------------------- bounds ----

\* Most detections one backend result carries.
MaxDets == 1

\* Most user events (clicks, slider moves, file drops) in one behaviour.
MaxEvents == 3

\* Most get_next_frame calls that complete in one behaviour.
MaxTicks == 3

\* Most entries of the results prop of DetectionStats and DetectionHistory.
MaxResults == 2

\* Most interval ticks of App's poll of the detection state in one behaviour.
MaxPolls == 3

\* Most results the backend acquires in one behaviour of the poll.
MaxAcquired == 2

\* --------------------------------------------------- program constants ----

\* addDetectionResult keeps the last 19 entries and appends the new one.
HistoryKeep == 19

\* The fixed cut-off of the front end's labelling: confidence > 0.5.
LabelCutoff == 50

\* Default threshold of both classes set by initializeYolo: 0.9.
DefaultConfidence == 90

ClassIds == {0, 1}

\* Slider positions that are explored (the slider ranges over 0..1, step 0.01).
ThresholdLevels == {50, 70, DefaultConfidence}

\* Confidences the backend reports that are explored.
ConfidenceLevels == {50, 55, 65, 95}

\* The class name configured for an id (initializeYolo): 0 正常, 1 异常.
ClassName(id) == IF id = 0 THEN "normal" ELSE "abnormal"

\* The classes array set by initializeYolo: ids 0 and 1, threshold 0.9, enabled.
DefaultClasses ==
  << [id |-> 0, name |-> ClassName(0), confidence |-> DefaultConfidence, enabled |-> TRUE],
     [id |-> 1, name |-> ClassName(1), confidence |-> DefaultConfidence, enabled |-> TRUE] >>

\* ------------------------------------------------------------- state ----

VARIABLES
  isRunning,         \* state.isRunning
  inputSource,       \* state.inputSource: "null", "camera", "video", "image"
  classes,           \* state.classes: sequence of ClassConfig records
  detectionResults,  \* state.detectionResults: the result history
  currentFrame,      \* state.currentFrame: "null", "image", "frame"
  loading,           \* state.loading
  error,             \* state.error: "null" or the operation that failed
  processingImage,   \* state.processingImage
  detectionBoxes,    \* state.detectionBoxes: the boxes drawn over the processed image
  frameUpdateRef,    \* frameUpdateRef.current: 0 (null) or a timer id
  timers,            \* pending setTimeout(updateFrame, 33) timers: [id, closure]
  timerSeq,          \* last timer id handed out by setTimeout
  inFlight,          \* bag of closures of updateFrame calls awaiting get_next_frame
  initCalls,         \* bag of pending initialize_yolo_model calls: "mount" / "reset"
  resetCalls,        \* number of pending reset_configuration calls
  camCalls,          \* bag of closures of startCamera calls awaiting the backend
  vidDialogs,        \* bag of closures of selectVideo calls waiting in the file dialog
  vidLoads,          \* bag of closures of selectVideo calls awaiting load_video_source
  imgDialogs,        \* bag of closures of selectImage calls waiting in the file dialog
  imgCalls,          \* bag of closures of processImageFromPath calls awaiting the backend
  stopCalls,         \* number of stopDetection calls awaiting stop_detection
  events,            \* number of user events so far (bounded by MaxEvents)
  lastPub,           \* the entries the last step passed to addDetectionResult, in order
  evicted,           \* number of entries the last step's publishes pushed out of the history
  lastCall,          \* the backend result the last step consumed: the classes sent, the detections
  failStreak,        \* number of get_next_frame calls that failed since the last one that succeeded
  progressIntervals, \* number of active setInterval timers of processImageFromPath
  imageProcessingProgress,  \* state.imageProcessingProgress, in percent
  mounted,           \* whether YoloApp is mounted
  cleanupStopCalls,  \* number of stop_detection calls issued by the cleanup of the mount effect
  resultsProp,       \* the results prop of DetectionStats and DetectionHistory
  stats,             \* what DetectionStats last computed from results
  exportData,        \* what handleExportResults last wrote, parsed back
  backendResults,    \* the results of the backend's detection state (get_detection_state)
  acquired,          \* number of results the backend has acquired so far
  polls,             \* number of pollDetectionState calls awaiting get_detection_state
  pollCount,         \* number of interval ticks of the poll so far (bounded by MaxPolls)
  detectionState,    \* App's detectionState: is_running and results of the last poll
  resultsText,       \* App's detectionResults: the lines of the result log, in order
  backendRunning,    \* is_running of the backend's detection state
  appCalls,          \* bag of App handler calls awaiting a backend command: [handler, stage]
  selectedSource     \* App's selectedSource: "null", "camera", "video", "image"

vars == << isRunning, inputSource, classes, detectionResults, currentFrame, loading,
           error, processingImage, detectionBoxes, frameUpdateRef, timers, timerSeq, inFlight,
           initCalls, resetCalls, camCalls, vidDialogs, vidLoads, imgDialogs,
           imgCalls, stopCalls, events, lastPub, evicted, lastCall, failStreak,
           progressIntervals, imageProcessingProgress, mounted, cleanupStopCalls,
           resultsProp, stats, exportData,
           backendResults, acquired, polls, pollCount, detectionState, resultsText,
           backendRunning, appCalls, selectedSource >>

uiVars == << isRunning, inputSource, classes, detectionResults, currentFrame, loading,
             error, processingImage, detectionBoxes >>
loopVars == << frameUpdateRef, timers, timerSeq, inFlight >>
callVars == << initCalls, resetCalls, camCalls, vidDialogs, vidLoads, imgDialogs,
               imgCalls, stopCalls >>
pollVars == << backendResults, acquired, polls, pollCount, detectionState, resultsText >>
appVars == << backendRunning, appCalls, selectedSource >>
progressVars == << progressIntervals, imageProcessingProgress >>
mountVars == << mounted, cleanupStopCalls >>
propVars == << resultsProp, stats, exportData, pollVars, appVars >>

\* ----------------------------------------------------------- helpers ----

\* A slice that drops nothing.
SliceKeepAll(s, n) == s

\* array.slice(-n): the last n elements, or all of them when there are fewer.
SliceLast(s, n) == IF Len(s) <= n THEN s ELSE SubSeq(s, Len(s) - n + 1, Len(s))

\* The updater of addDetectionResult applied to a history.
AddDetectionResult(results, r) == Append(SliceLast(results, HistoryKeep), r)

\* Several addDetectionResult calls in order (the forEach over detections).
RECURSIVE AddAll(_, _)
AddAll(results, rs) ==
  IF rs = <<>> THEN results
  ELSE AddAll(AddDetectionResult(results, Head(rs)), Tail(rs))

\* array.filter(result => result.className === 'System')
RECURSIVE FilterSystem(_)
FilterSystem(results) ==
  IF results = <<>> THEN <<>>
  ELSE IF Head(results).className = "System"
       THEN <<Head(results)>> \o FilterSystem(Tail(results))
       ELSE FilterSystem(Tail(results))

\* The system message entry: className 'System', confidence 1.0.
SystemResult == [className |-> "System", confidence |-> 100]

\* The entry for a frame or image without detections: '未检测出', confidence 0.
NoneResult == [className |-> "none", confidence |-> 0]

\* det.confidence > 0.5 ? '异常' : '正常'
DetectionType(confidence) == IF confidence > LabelCutoff THEN "abnormal" ELSE "normal"

\* The entry published for one detection of a backend result.
DetectionEntry(det) ==
  [className |-> DetectionType(det.confidence), confidence |-> det.confidence]

\* Entries for a backend result in which a result without detections is
\* published as a classification 'normal' of confidence 0.
ResultEntriesAllNormal(dets) ==
  IF Len(dets) > 0 THEN [i \in 1..Len(dets) |-> DetectionEntry(dets[i])]
  ELSE << [className |-> "normal", confidence |-> 0] >>

\* The entries published for a backend result: one per detection in the
\* backend's order, or the single 'none' entry when there is no detection.
ResultEntries(dets) ==
  IF Len(dets) > 0 THEN [i \in 1..Len(dets) |-> DetectionEntry(dets[i])]
  ELSE <<NoneResult>>

\* result.detections?.map(det => ({className: ..., confidence: det.confidence, ...}))
DetectionBoxes(dets) == [i \in DOMAIN dets |-> DetectionEntry(dets[i])]

\* The `state` constant of the render whose handler is running: what a
\* handler reads through state.isRunning, state.classes and state.error.
Closure == [isRunning |-> isRunning, classes |-> classes, error |-> error]

\* state.isRunning as it would read if updateFrame saw the state its caller
\* has just set.
StateIsRunningAsSet(c) == TRUE

\* state.isRunning as read inside updateFrame: the closure's value.
ClosureIsRunning(c) == c.isRunning

\* classes.map(cls => cls.id === classId ? {...cls, confidence} : cls)
WithConfidence(cs, classId, confidence) ==
  [i \in DOMAIN cs |-> IF cs[i].id = classId
                        THEN [cs[i] EXCEPT !.confidence = confidence] ELSE cs[i]]

\* A map that flips the switch of every class.
WithAllToggled(cs, classId) ==
  [i \in DOMAIN cs |-> [cs[i] EXCEPT !.enabled = ~cs[i].enabled]]

\* classes.map(cls => cls.id === classId ? {...cls, enabled: !cls.enabled} : cls)
WithToggled(cs, classId) ==
  [i \in DOMAIN cs |-> IF cs[i].id = classId
                        THEN [cs[i] EXCEPT !.enabled = ~cs[i].enabled] ELSE cs[i]]

\* Nothing computed yet from the results prop.
NotComputed == [computed |-> FALSE]

\* No backend detection result.
NoCall == [classes |-> <<>>, dets |-> <<>>]

\* One step's calls of addDetectionResult with the entries rs, in order.
Publish(rs) ==
  /\ detectionResults' = AddAll(detectionResults, rs)
  /\ lastPub' = rs
  /\ evicted' = Len(detectionResults) + Len(rs) - Len(detectionResults')
  /\ lastCall' = NoCall

\* The entries of a backend result published by one step: the detections
\* dets returned to a call made with the classes cfg.
PublishResult(cfg, dets) ==
  /\ detectionResults' = AddAll(detectionResults, ResultEntries(dets))
  /\ lastPub' = ResultEntries(dets)
  /\ evicted' = Len(detectionResults) + Len(ResultEntries(dets)) - Len(detectionResults')
  /\ lastCall' = [classes |-> cfg, dets |-> dets]

\* A step that calls addDetectionResult for nothing.
NoPublish ==
  /\ lastPub' = <<>>
  /\ evicted' = 0
  /\ lastCall' = NoCall

\* A step taken by the user, within the bound on user events.
UserEvent ==
  /\ events < MaxEvents
  /\ events' = events + 1

Add(bag, x) == bag (+) SetToBag({x})
Remove(bag, x) == bag (-) SetToBag({x})

\* The poll of App (src/src/App.tsx) before its first tick: the useState
\* values, and a backend that has acquired nothing.
InitPoll ==
  /\ backendResults = <<>>
  /\ acquired = 0
  /\ polls = 0
  /\ pollCount = 0
  /\ detectionState = [is_running |-> FALSE, results |-> <<>>]
  /\ resultsText = <<>>
  /\ backendRunning = FALSE
  /\ appCalls = EmptyBag
  /\ selectedSource = "null"

\* ------------------------------------------------- external collaborator ----

\* Whether the detector may report a detection under the class configuration
\* it was called with: the class is configured and enabled and the confidence
\* reaches its threshold.
Accepts(cfg, det) ==
  \E i \in DOMAIN cfg :
    /\ cfg[i].id = det.classId
    /\ cfg[i].enabled
    /\ det.confidence >= cfg[i].confidence

Detections == [classId : ClassIds, confidence : ConfidenceLevels]

\* The detection lists a backend call made with configuration cfg can return.
BackendDetections(cfg) ==
  { dets \in UNION { [1..n -> Detections] : n \in 0..MaxDets } :
      \A i \in DOMAIN dets : Accepts(cfg, dets[i]) }

\* ------------------------------------------------------ frame loop ----

\* A startFrameUpdate() whose updateFrame has no isRunning guard.
StartFrameUpdateUnguarded(c) ==
  /\ inFlight' = Add(inFlight, c)
  /\ UNCHANGED << frameUpdateRef, timers, timerSeq >>

\* startFrameUpdate() called by a handler whose closure is c: updateFrame
\* runs at once up to its first await.  `if (!state.isRunning) return` reads
\* the closure; past it, get_next_frame is invoked with the closure's classes.
StartFrameUpdate(c) ==
  /\ inFlight' = IF ClosureIsRunning(c) THEN Add(inFlight, c) ELSE inFlight
  /\ UNCHANGED << frameUpdateRef, timers, timerSeq >>

\* A tick timer scheduled without a call of updateFrame behind it.
ScheduleNextDropped(c) ==
  /\ timerSeq' = timerSeq + 1
  /\ UNCHANGED << frameUpdateRef, timers >>

\* The closing `if (state.isRunning) frameUpdateRef.current = setTimeout(...)`
\* of updateFrame, for a closure c.
ScheduleNext(c) ==
  IF ClosureIsRunning(c)
  THEN /\ timerSeq' = timerSeq + 1
       /\ timers' = timers \cup {[id |-> timerSeq + 1, closure |-> c]}
       /\ frameUpdateRef' = timerSeq + 1
  ELSE UNCHANGED << frameUpdateRef, timers, timerSeq >>

\* get_next_frame resolves with success and detections dets for the
\* updateFrame call of closure c: the frame is shown, the entries published,
\* the next tick scheduled.
GetNextFrameOk(c, dets) ==
  /\ BagIn(c, inFlight)
  /\ timerSeq < MaxTicks
  /\ inFlight' = Remove(inFlight, c)
  /\ currentFrame' = "frame"
  /\ PublishResult(c.classes, dets)
  /\ ScheduleNext(c)
  /\ UNCHANGED << isRunning, inputSource, classes, loading, error, processingImage >>
  /\ UNCHANGED callVars
  /\ UNCHANGED events
  /\ UNCHANGED detectionBoxes
  /\ failStreak' = 0
  /\ UNCHANGED progressVars
  /\ UNCHANGED mountVars
  /\ UNCHANGED propVars

\* get_next_frame resolves with a result that is not successful (the source
\* has no further frame): `if (frameResult && frameResult.success)` is
\* skipped, nothing is published, the next tick is scheduled.
GetNextFrameNoFrame(c) ==
  /\ BagIn(c, inFlight)
  /\ timerSeq < MaxTicks
  /\ inFlight' = Remove(inFlight, c)
  /\ NoPublish
  /\ ScheduleNext(c)
  /\ UNCHANGED uiVars
  /\ UNCHANGED callVars
  /\ UNCHANGED events
  /\ failStreak' = 0
  /\ UNCHANGED progressVars
  /\ UNCHANGED mountVars
  /\ UNCHANGED propVars

\* get_next_frame rejects: the catch only logs to the console, nothing is
\* published, the next tick is scheduled.
GetNextFrameFail(c) ==
  /\ BagIn(c, inFlight)
  /\ timerSeq < MaxTicks
  /\ inFlight' = Remove(inFlight, c)
  /\ NoPublish
  /\ ScheduleNext(c)
  /\ UNCHANGED uiVars
  /\ UNCHANGED callVars
  /\ UNCHANGED events
  /\ failStreak' = failStreak + 1
  /\ UNCHANGED progressVars
  /\ UNCHANGED mountVars
  /\ UNCHANGED propVars

\* A pending timer fires: updateFrame runs again with the same closure.
TimerFires(t) ==
  /\ t \in timers
  /\ timers' = timers \ {t}
  /\ inFlight' = IF ClosureIsRunning(t.closure) THEN Add(inFlight, t.closure) ELSE inFlight
  /\ NoPublish
  /\ UNCHANGED << frameUpdateRef, timerSeq >>
  /\ UNCHANGED uiVars
  /\ UNCHANGED callVars
  /\ UNCHANGED events
  /\ UNCHANGED failStreak
  /\ UNCHANGED progressVars
  /\ UNCHANGED mountVars
  /\ UNCHANGED propVars

\* ------------------------------------------------------------ render ----

\* While state.loading the component returns the loading screen: no control
\* of the main view is mounted.
Rendered == ~loading

\* ----------------------------------------------------- initializeYolo ----

\* The part of initializeYolo before its await, applied to the state.
InitializeBegin(origin) ==
  /\ loading' = TRUE
  /\ error' = "null"
  /\ initCalls' = Add(initCalls, origin)

\* Entries published when the initialize_yolo_model call of `origin` has
\* settled: resetConfiguration adds its message after initializeYolo returns.
InitializeEntries(origin, ok) ==
  (IF ok THEN <<SystemResult>> ELSE <<>>) \o
  (IF origin = "reset" THEN <<SystemResult>> ELSE <<>>)

\* initialize_yolo_model resolves: classes set to the defaults, loading cleared.
InitializeOk(origin) ==
  /\ BagIn(origin, initCalls)
  /\ initCalls' = Remove(initCalls, origin)
  /\ classes' = DefaultClasses
  /\ loading' = FALSE
  /\ Publish(InitializeEntries(origin, TRUE))
  /\ UNCHANGED << isRunning, inputSource, currentFrame, error, processingImage >>
  /\ UNCHANGED << resetCalls, camCalls, vidDialogs, vidLoads, imgDialogs, imgCalls, stopCalls >>
  /\ UNCHANGED loopVars
  /\ UNCHANGED events
  /\ UNCHANGED detectionBoxes
  /\ UNCHANGED failStreak
  /\ UNCHANGED progressVars
  /\ UNCHANGED mountVars
  /\ UNCHANGED propVars

\* initialize_yolo_model rejects: the error is recorded, loading cleared.
InitializeFail(origin) ==
  /\ BagIn(origin, initCalls)
  /\ initCalls' = Remove(initCalls, origin)
  /\ error' = "init"
  /\ loading' = FALSE
  /\ Publish(InitializeEntries(origin, FALSE))
  /\ UNCHANGED << isRunning, inputSource, classes, currentFrame, processingImage >>
  /\ UNCHANGED << resetCalls, camCalls, vidDialogs, vidLoads, imgDialogs, imgCalls, stopCalls >>
  /\ UNCHANGED loopVars
  /\ UNCHANGED events
  /\ UNCHANGED detectionBoxes
  /\ UNCHANGED failStreak
  /\ UNCHANGED progressVars
  /\ UNCHANGED mountVars
  /\ UNCHANGED propVars

\* -------------------------------------------------- resetConfiguration ----

\* Click on the reset button (disabled while loading).
ResetConfiguration ==
  /\ Rendered
  /\ UserEvent
  /\ resetCalls' = resetCalls + 1
  /\ NoPublish
  /\ UNCHANGED uiVars
  /\ UNCHANGED loopVars
  /\ UNCHANGED << initCalls, camCalls, vidDialogs, vidLoads, imgDialogs, imgCalls, stopCalls >>
  /\ UNCHANGED failStreak
  /\ UNCHANGED progressVars
  /\ UNCHANGED mountVars
  /\ UNCHANGED propVars

\* reset_configuration resolves: initializeYolo starts.
ResetConfigurationOk ==
  /\ resetCalls > 0
  /\ resetCalls' = resetCalls - 1
  /\ InitializeBegin("reset")
  /\ NoPublish
  /\ UNCHANGED << isRunning, inputSource, classes, detectionResults, currentFrame,
                  processingImage >>
  /\ UNCHANGED loopVars
  /\ UNCHANGED << camCalls, vidDialogs, vidLoads, imgDialogs, imgCalls, stopCalls >>
  /\ UNCHANGED events
  /\ UNCHANGED detectionBoxes
  /\ UNCHANGED failStreak
  /\ UNCHANGED progressVars
  /\ UNCHANGED mountVars
  /\ UNCHANGED propVars

\* reset_configuration rejects: the error is recorded.
ResetConfigurationFail ==
  /\ resetCalls > 0
  /\ resetCalls' = resetCalls - 1
  /\ error' = "reset"
  /\ NoPublish
  /\ UNCHANGED << isRunning, inputSource, classes, detectionResults, currentFrame,
                  loading, processingImage >>
  /\ UNCHANGED loopVars
  /\ UNCHANGED << initCalls, camCalls, vidDialogs, vidLoads, imgDialogs, imgCalls, stopCalls >>
  /\ UNCHANGED events
  /\ UNCHANGED detectionBoxes
  /\ UNCHANGED failStreak
  /\ UNCHANGED progressVars
  /\ UNCHANGED mountVars
  /\ UNCHANGED propVars

\* --------------------------------------------------------- startCamera ----

\* Click on the camera button (disabled while isRunning or loading): loading
\* is set, the error cleared, start_camera_detection invoked.
StartCamera ==
  /\ Rendered
  /\ UserEvent
  /\ ~isRunning
  /\ loading' = TRUE
  /\ error' = "null"
  /\ camCalls' = Add(camCalls, Closure)
  /\ NoPublish
  /\ UNCHANGED << isRunning, inputSource, classes, detectionResults, currentFrame,
                  processingImage >>
  /\ UNCHANGED loopVars
  /\ UNCHANGED << initCalls, resetCalls, vidDialogs, vidLoads, imgDialogs, imgCalls, stopCalls >>
  /\ UNCHANGED detectionBoxes
  /\ UNCHANGED failStreak
  /\ UNCHANGED progressVars
  /\ UNCHANGED mountVars
  /\ UNCHANGED propVars

\* start_camera_detection resolves for the call of closure c.
StartCameraOk(c) ==
  /\ BagIn(c, camCalls)
  /\ camCalls' = Remove(camCalls, c)
  /\ inputSource' = "camera"
  /\ isRunning' = TRUE
  /\ loading' = FALSE
  /\ Publish(<<SystemResult>>)
  /\ StartFrameUpdate(c)
  /\ UNCHANGED << classes, currentFrame, error, processingImage >>
  /\ UNCHANGED << initCalls, resetCalls, vidDialogs, vidLoads, imgDialogs, imgCalls, stopCalls >>
  /\ UNCHANGED events
  /\ UNCHANGED detectionBoxes
  /\ UNCHANGED failStreak
  /\ UNCHANGED progressVars
  /\ UNCHANGED mountVars
  /\ UNCHANGED propVars

\* A startCamera catch block that records the error but leaves loading set.
StartCameraFailKeepsLoading(c) ==
  /\ BagIn(c, camCalls)
  /\ camCalls' = Remove(camCalls, c)
  /\ error' = "camera"
  /\ NoPublish
  /\ UNCHANGED << isRunning, inputSource, classes, detectionResults, currentFrame,
                  loading, processingImage >>
  /\ UNCHANGED loopVars
  /\ UNCHANGED << initCalls, resetCalls, vidDialogs, vidLoads, imgDialogs, imgCalls, stopCalls >>
  /\ UNCHANGED events
  /\ UNCHANGED detectionBoxes
  /\ UNCHANGED failStreak
  /\ UNCHANGED progressVars
  /\ UNCHANGED mountVars
  /\ UNCHANGED propVars

\* start_camera_detection rejects for the call of closure c.
StartCameraFail(c) ==
  /\ BagIn(c, camCalls)
  /\ camCalls' = Remove(camCalls, c)
  /\ error' = "camera"
  /\ loading' = FALSE
  /\ NoPublish
  /\ UNCHANGED << isRunning, inputSource, classes, detectionResults, currentFrame,
                  processingImage >>
  /\ UNCHANGED loopVars
  /\ UNCHANGED << initCalls, resetCalls, vidDialogs, vidLoads, imgDialogs, imgCalls, stopCalls >>
  /\ UNCHANGED events
  /\ UNCHANGED detectionBoxes
  /\ UNCHANGED failStreak
  /\ UNCHANGED progressVars
  /\ UNCHANGED mountVars
  /\ UNCHANGED propVars

\* --------------------------------------------------------- selectVideo ----

\* Click on the video button (disabled while isRunning or loading): the
\* file dialog opens; no state is set before a file is chosen.
SelectVideo ==
  /\ Rendered
  /\ UserEvent
  /\ ~isRunning
  /\ vidDialogs' = Add(vidDialogs, Closure)
  /\ NoPublish
  /\ UNCHANGED uiVars
  /\ UNCHANGED loopVars
  /\ UNCHANGED << initCalls, resetCalls, camCalls, vidLoads, imgDialogs, imgCalls, stopCalls >>
  /\ UNCHANGED failStreak
  /\ UNCHANGED progressVars
  /\ UNCHANGED mountVars
  /\ UNCHANGED propVars

\* The dialog is dismissed without a file: selectVideo returns.
VideoDialogCancel(c) ==
  /\ BagIn(c, vidDialogs)
  /\ vidDialogs' = Remove(vidDialogs, c)
  /\ NoPublish
  /\ UNCHANGED uiVars
  /\ UNCHANGED loopVars
  /\ UNCHANGED << initCalls, resetCalls, camCalls, vidLoads, imgDialogs, imgCalls, stopCalls >>
  /\ UNCHANGED events
  /\ UNCHANGED failStreak
  /\ UNCHANGED progressVars
  /\ UNCHANGED mountVars
  /\ UNCHANGED propVars

\* The dialog call itself rejects: the catch records the error and clears loading.
VideoDialogFail(c) ==
  /\ BagIn(c, vidDialogs)
  /\ vidDialogs' = Remove(vidDialogs, c)
  /\ error' = "video"
  /\ loading' = FALSE
  /\ NoPublish
  /\ UNCHANGED << isRunning, inputSource, classes, detectionResults, currentFrame,
                  processingImage >>
  /\ UNCHANGED loopVars
  /\ UNCHANGED << initCalls, resetCalls, camCalls, vidLoads, imgDialogs, imgCalls, stopCalls >>
  /\ UNCHANGED events
  /\ UNCHANGED detectionBoxes
  /\ UNCHANGED failStreak
  /\ UNCHANGED progressVars
  /\ UNCHANGED mountVars
  /\ UNCHANGED propVars

\* A file is chosen: loading is set and load_video_source invoked.
VideoDialogPick(c) ==
  /\ BagIn(c, vidDialogs)
  /\ vidDialogs' = Remove(vidDialogs, c)
  /\ vidLoads' = Add(vidLoads, c)
  /\ loading' = TRUE
  /\ NoPublish
  /\ UNCHANGED << isRunning, inputSource, classes, detectionResults, currentFrame,
                  error, processingImage >>
  /\ UNCHANGED loopVars
  /\ UNCHANGED << initCalls, resetCalls, camCalls, imgDialogs, imgCalls, stopCalls >>
  /\ UNCHANGED events
  /\ UNCHANGED detectionBoxes
  /\ UNCHANGED failStreak
  /\ UNCHANGED progressVars
  /\ UNCHANGED mountVars
  /\ UNCHANGED propVars

\* load_video_source resolves for the call of closure c.
LoadVideoOk(c) ==
  /\ BagIn(c, vidLoads)
  /\ vidLoads' = Remove(vidLoads, c)
  /\ inputSource' = "video"
  /\ isRunning' = TRUE
  /\ loading' = FALSE
  /\ Publish(<<SystemResult>>)
  /\ StartFrameUpdate(c)
  /\ UNCHANGED << classes, currentFrame, error, processingImage >>
  /\ UNCHANGED << initCalls, resetCalls, camCalls, vidDialogs, imgDialogs, imgCalls, stopCalls >>
  /\ UNCHANGED events
  /\ UNCHANGED detectionBoxes
  /\ UNCHANGED failStreak
  /\ UNCHANGED progressVars
  /\ UNCHANGED mountVars
  /\ UNCHANGED propVars

\* load_video_source rejects for the call of closure c.
LoadVideoFail(c) ==
  /\ BagIn(c, vidLoads)
  /\ vidLoads' = Remove(vidLoads, c)
  /\ error' = "video"
  /\ loading' = FALSE
  /\ NoPublish
  /\ UNCHANGED << isRunning, inputSource, classes, detectionResults, currentFrame,
                  processingImage >>
  /\ UNCHANGED loopVars
  /\ UNCHANGED << initCalls, resetCalls, camCalls, vidDialogs, imgDialogs, imgCalls, stopCalls >>
  /\ UNCHANGED events
  /\ UNCHANGED detectionBoxes
  /\ UNCHANGED failStreak
  /\ UNCHANGED progressVars
  /\ UNCHANGED mountVars
  /\ UNCHANGED propVars

\* -------------------------------------------------------- stopDetection ----

\* Click on the stop button (rendered while isRunning): the timer of
\* frameUpdateRef is cleared, then stop_detection is invoked.
StopDetection ==
  /\ Rendered
  /\ UserEvent
  /\ isRunning
  /\ timers' = { t \in timers : t.id # frameUpdateRef }
  /\ frameUpdateRef' = 0
  /\ stopCalls' = stopCalls + 1
  /\ NoPublish
  /\ UNCHANGED uiVars
  /\ UNCHANGED << timerSeq, inFlight >>
  /\ UNCHANGED << initCalls, resetCalls, camCalls, vidDialogs, vidLoads, imgDialogs, imgCalls >>
  /\ UNCHANGED failStreak
  /\ UNCHANGED progressVars
  /\ UNCHANGED mountVars
  /\ UNCHANGED propVars

\* stop_detection resolves: the session fields are reset, the message published.
StopDetectionOk ==
  /\ stopCalls > 0
  /\ stopCalls' = stopCalls - 1
  /\ isRunning' = FALSE
  /\ inputSource' = "null"
  /\ currentFrame' = "null"
  /\ Publish(<<SystemResult>>)
  /\ UNCHANGED << classes, loading, error, processingImage >>
  /\ UNCHANGED loopVars
  /\ UNCHANGED << initCalls, resetCalls, camCalls, vidDialogs, vidLoads, imgDialogs, imgCalls >>
  /\ UNCHANGED events
  /\ UNCHANGED detectionBoxes
  /\ UNCHANGED failStreak
  /\ UNCHANGED progressVars
  /\ UNCHANGED mountVars
  /\ UNCHANGED propVars

\* stop_detection rejects: the error is recorded.
StopDetectionFail ==
  /\ stopCalls > 0
  /\ stopCalls' = stopCalls - 1
  /\ error' = "stop"
  /\ NoPublish
  /\ UNCHANGED << isRunning, inputSource, classes, detectionResults, currentFrame,
                  loading, processingImage >>
  /\ UNCHANGED loopVars
  /\ UNCHANGED << initCalls, resetCalls, camCalls, vidDialogs, vidLoads, imgDialogs, imgCalls >>
  /\ UNCHANGED events
  /\ UNCHANGED detectionBoxes
  /\ UNCHANGED failStreak
  /\ UNCHANGED progressVars
  /\ UNCHANGED mountVars
  /\ UNCHANGED propVars

\* ---------------------------------------------------------- selectImage ----

\* Click on the image button (disabled while loading or processingImage):
\* the file dialog opens.
SelectImage ==
  /\ Rendered
  /\ UserEvent
  /\ ~processingImage
  /\ imgDialogs' = Add(imgDialogs, Closure)
  /\ NoPublish
  /\ UNCHANGED uiVars
  /\ UNCHANGED loopVars
  /\ UNCHANGED << initCalls, resetCalls, camCalls, vidDialogs, vidLoads, imgCalls, stopCalls >>
  /\ UNCHANGED failStreak
  /\ UNCHANGED progressVars
  /\ UNCHANGED mountVars
  /\ UNCHANGED propVars

\* The dialog yields no usable path (dismissed, malformed result, or the
\* dialog call rejects): a toast at most, selectImage returns.
ImageDialogNoFile(c) ==
  /\ BagIn(c, imgDialogs)
  /\ imgDialogs' = Remove(imgDialogs, c)
  /\ NoPublish
  /\ UNCHANGED uiVars
  /\ UNCHANGED loopVars
  /\ UNCHANGED << initCalls, resetCalls, camCalls, vidDialogs, vidLoads, imgCalls, stopCalls >>
  /\ UNCHANGED events
  /\ UNCHANGED failStreak
  /\ UNCHANGED progressVars
  /\ UNCHANGED mountVars
  /\ UNCHANGED propVars

\* A file is chosen: processImageFromPath starts.  The history keeps only its
\* System entries, and process_single_image is invoked with the closure's classes.
ImageDialogPick(c) ==
  /\ BagIn(c, imgDialogs)
  /\ imgDialogs' = Remove(imgDialogs, c)
  /\ imgCalls' = Add(imgCalls, c)
  /\ processingImage' = TRUE
  /\ error' = "null"
  /\ currentFrame' = "null"
  /\ detectionResults' = FilterSystem(detectionResults)
  /\ NoPublish
  /\ UNCHANGED << isRunning, inputSource, classes, loading >>
  /\ UNCHANGED loopVars
  /\ UNCHANGED << initCalls, resetCalls, camCalls, vidDialogs, vidLoads, stopCalls >>
  /\ UNCHANGED events
  /\ detectionBoxes' = <<>>
  /\ UNCHANGED failStreak
  /\ progressIntervals' = progressIntervals + 1
  /\ imageProcessingProgress' = 0
  /\ UNCHANGED mountVars
  /\ UNCHANGED propVars

\* process_single_image resolves with detections dets for the call of closure c.
ProcessImageOk(c, dets) ==
  /\ BagIn(c, imgCalls)
  /\ imgCalls' = Remove(imgCalls, c)
  /\ inputSource' = "image"
  /\ currentFrame' = "image"
  /\ processingImage' = FALSE
  /\ PublishResult(c.classes, dets)
  /\ UNCHANGED << isRunning, classes, loading, error >>
  /\ UNCHANGED loopVars
  /\ UNCHANGED << initCalls, resetCalls, camCalls, vidDialogs, vidLoads, imgDialogs, stopCalls >>
  /\ UNCHANGED events
  /\ detectionBoxes' = DetectionBoxes(dets)
  /\ UNCHANGED failStreak
  /\ progressIntervals' = progressIntervals - 1
  /\ imageProcessingProgress' = 100
  /\ UNCHANGED mountVars
  /\ UNCHANGED propVars

\* process_single_image rejects for the call of closure c.
ProcessImageFail(c) ==
  /\ BagIn(c, imgCalls)
  /\ imgCalls' = Remove(imgCalls, c)
  /\ processingImage' = FALSE
  /\ error' = "image"
  /\ NoPublish
  /\ UNCHANGED << isRunning, inputSource, classes, detectionResults, currentFrame, loading >>
  /\ UNCHANGED loopVars
  /\ UNCHANGED << initCalls, resetCalls, camCalls, vidDialogs, vidLoads, imgDialogs, stopCalls >>
  /\ UNCHANGED events
  /\ UNCHANGED detectionBoxes
  /\ UNCHANGED failStreak
  /\ UNCHANGED progressVars
  /\ UNCHANGED mountVars
  /\ UNCHANGED propVars

\* An interval timer of processImageFromPath fires (every 200 ms while it is
\* active): imageProcessingProgress: Math.min(prev.imageProcessingProgress + 10, 90).
ProgressTick ==
  /\ progressIntervals > 0
  /\ imageProcessingProgress' =
       IF imageProcessingProgress + 10 < 90 THEN imageProcessingProgress + 10 ELSE 90
  /\ imageProcessingProgress' # imageProcessingProgress
  /\ NoPublish
  /\ UNCHANGED progressIntervals
  /\ UNCHANGED mountVars
  /\ UNCHANGED uiVars
  /\ UNCHANGED loopVars
  /\ UNCHANGED callVars
  /\ UNCHANGED << events, failStreak >>
  /\ UNCHANGED propVars

\* A file is dropped on the upload area (shown while there is no frame and no
\* image is processed; disabled while loading, processingImage or isRunning):
\* handleImageSelect publishes a hint.
HandleImageSelect ==
  /\ Rendered
  /\ UserEvent
  /\ currentFrame = "null"
  /\ ~processingImage
  /\ ~isRunning
  /\ Publish(<<SystemResult>>)
  /\ UNCHANGED << isRunning, inputSource, classes, currentFrame, loading, error,
                  processingImage >>
  /\ UNCHANGED loopVars
  /\ UNCHANGED callVars
  /\ UNCHANGED detectionBoxes
  /\ UNCHANGED failStreak
  /\ UNCHANGED progressVars
  /\ UNCHANGED mountVars
  /\ UNCHANGED propVars

\* The clear-image button (shown for inputSource 'image', disabled while
\* loading or processingImage) or the close/reset control of the preview
\* (shown for an image frame).
ClearImageResults ==
  /\ Rendered
  /\ UserEvent
  /\ inputSource = "image"
  /\ ~processingImage \/ currentFrame # "null"
  /\ currentFrame' = "null"
  /\ inputSource' = "null"
  /\ processingImage' = FALSE
  /\ error' = "null"
  /\ NoPublish
  /\ UNCHANGED << isRunning, classes, detectionResults, loading >>
  /\ UNCHANGED loopVars
  /\ UNCHANGED callVars
  /\ detectionBoxes' = <<>>
  /\ UNCHANGED failStreak
  /\ imageProcessingProgress' = 0
  /\ UNCHANGED progressIntervals
  /\ UNCHANGED mountVars
  /\ UNCHANGED propVars

\* --------------------------------------------------- class configuration ----

\* The slider of class classId (disabled while the class is disabled) moves to v.
UpdateClassConfidence(classId, v) ==
  /\ Rendered
  /\ UserEvent
  /\ \E i \in DOMAIN classes : classes[i].id = classId /\ classes[i].enabled
  /\ classes' = WithConfidence(classes, classId, v)
  /\ classes' # classes
  /\ NoPublish
  /\ UNCHANGED << isRunning, inputSource, detectionResults, currentFrame, loading,
                  error, processingImage >>
  /\ UNCHANGED loopVars
  /\ UNCHANGED callVars
  /\ UNCHANGED detectionBoxes
  /\ UNCHANGED failStreak
  /\ UNCHANGED progressVars
  /\ UNCHANGED mountVars
  /\ UNCHANGED propVars

\* The switch of class classId is flipped.
ToggleClassEnabled(classId) ==
  /\ Rendered
  /\ UserEvent
  /\ \E i \in DOMAIN classes : classes[i].id = classId
  /\ classes' = WithToggled(classes, classId)
  /\ NoPublish
  /\ UNCHANGED << isRunning, inputSource, detectionResults, currentFrame, loading,
                  error, processingImage >>
  /\ UNCHANGED loopVars
  /\ UNCHANGED callVars
  /\ UNCHANGED detectionBoxes
  /\ UNCHANGED failStreak
  /\ UNCHANGED progressVars
  /\ UNCHANGED mountVars
  /\ UNCHANGED propVars

\* A clear that resets the session fields along with the history.
ClearResultsAndSession ==
  /\ Rendered
  /\ UserEvent
  /\ detectionResults' = <<>>
  /\ isRunning' = FALSE
  /\ inputSource' = "null"
  /\ NoPublish
  /\ UNCHANGED << classes, currentFrame, loading, error, processingImage, detectionBoxes >>
  /\ UNCHANGED loopVars
  /\ UNCHANGED callVars
  /\ UNCHANGED failStreak
  /\ UNCHANGED progressVars
  /\ UNCHANGED mountVars
  /\ UNCHANGED propVars

\* The clear button of the result list.
ClearResults ==
  /\ Rendered
  /\ UserEvent
  /\ detectionResults' = <<>>
  /\ NoPublish
  /\ UNCHANGED << isRunning, inputSource, classes, currentFrame, loading, error,
                  processingImage >>
  /\ UNCHANGED loopVars
  /\ UNCHANGED callVars
  /\ UNCHANGED detectionBoxes
  /\ UNCHANGED failStreak
  /\ UNCHANGED progressVars
  /\ UNCHANGED mountVars
  /\ UNCHANGED propVars

\* -------------------------------------------------------- specification ----

\* The state after the first render and its mount effect: the initial
\* useState value with initializeYolo run up to its await.
Init ==
  /\ isRunning = FALSE
  /\ inputSource = "null"
  /\ classes = <<>>
  /\ detectionResults = <<>>
  /\ currentFrame = "null"
  /\ loading = TRUE
  /\ error = "null"
  /\ processingImage = FALSE
  /\ detectionBoxes = <<>>
  /\ frameUpdateRef = 0
  /\ timers = {}
  /\ timerSeq = 0
  /\ inFlight = EmptyBag
  /\ initCalls = SetToBag({"mount"})
  /\ resetCalls = 0
  /\ camCalls = EmptyBag
  /\ vidDialogs = EmptyBag
  /\ vidLoads = EmptyBag
  /\ imgDialogs = EmptyBag
  /\ imgCalls = EmptyBag
  /\ stopCalls = 0
  /\ events = 0
  /\ lastPub = <<>>
  /\ evicted = 0
  /\ lastCall = NoCall
  /\ failStreak = 0
  /\ progressIntervals = 0
  /\ imageProcessingProgress = 0
  /\ mounted = TRUE
  /\ cleanupStopCalls = 0
  /\ resultsProp = <<>>
  /\ stats = NotComputed
  /\ exportData = NotComputed
  /\ InitPoll

Next ==
  \/ \E o \in {"mount", "reset"} : InitializeOk(o)
  \/ \E o \in {"mount", "reset"} : InitializeFail(o)
  \/ ResetConfiguration
  \/ ResetConfigurationOk
  \/ ResetConfigurationFail
  \/ StartCamera
  \/ \E c \in BagToSet(camCalls) : StartCameraOk(c)
  \/ \E c \in BagToSet(camCalls) : StartCameraFail(c)
  \/ SelectVideo
  \/ \E c \in BagToSet(vidDialogs) : VideoDialogCancel(c)
  \/ \E c \in BagToSet(vidDialogs) : VideoDialogFail(c)
  \/ \E c \in BagToSet(vidDialogs) : VideoDialogPick(c)
  \/ \E c \in BagToSet(vidLoads) : LoadVideoOk(c)
  \/ \E c \in BagToSet(vidLoads) : LoadVideoFail(c)
  \/ SelectImage
  \/ \E c \in BagToSet(imgDialogs) : ImageDialogNoFile(c)
  \/ \E c \in BagToSet(imgDialogs) : ImageDialogPick(c)
  \/ \E c \in BagToSet(imgCalls) : \E dets \in BackendDetections(c.classes) : ProcessImageOk(c, dets)
  \/ \E c \in BagToSet(imgCalls) : ProcessImageFail(c)
  \/ HandleImageSelect
  \/ ClearImageResults
  \/ StopDetection
  \/ StopDetectionOk
  \/ StopDetectionFail
  \/ \E id \in ClassIds, v \in ThresholdLevels : UpdateClassConfidence(id, v)
  \/ \E id \in ClassIds : ToggleClassEnabled(id)
  \/ ClearResults

Spec == Init /\ [][Next]_vars

\* updateFrame entered past its guard during a camera session: the body of
\* the loop as the code has it, for a `state` in which isRunning is true.  The
\* assembled component never gets here (FrameLoopDead); this step is part of
\* SpecTicks only, which examines the loop body by itself.
UpdateFrameEntered ==
  /\ isRunning
  /\ inputSource = "camera"
  /\ stopCalls = 0
  /\ timerSeq = 0
  /\ inFlight = EmptyBag
  /\ inFlight' = Add(inFlight, [isRunning |-> TRUE, classes |-> classes, error |-> error])
  /\ failStreak' = 0
  /\ UNCHANGED progressVars
  /\ UNCHANGED mountVars
  /\ NoPublish
  /\ UNCHANGED << frameUpdateRef, timers, timerSeq >>
  /\ UNCHANGED uiVars
  /\ UNCHANGED callVars
  /\ UNCHANGED events
  /\ UNCHANGED propVars

\* A camera session and the body of its frame loop.
TicksNext ==
  \/ InitializeOk("mount")
  \/ InitializeFail("mount")
  \/ StartCamera
  \/ \E c \in BagToSet(camCalls) : StartCameraOk(c)
  \/ \E c \in BagToSet(camCalls) : StartCameraFail(c)
  \/ UpdateFrameEntered
  \/ \E c \in BagToSet(inFlight) : \E dets \in BackendDetections(c.classes) : GetNextFrameOk(c, dets)
  \/ \E c \in BagToSet(inFlight) : GetNextFrameNoFrame(c)
  \/ \E c \in BagToSet(inFlight) : GetNextFrameFail(c)
  \/ \E t \in timers : TimerFires(t)
  \/ StopDetection
  \/ StopDetectionOk
  \/ StopDetectionFail

SpecTicks == Init /\ [][TicksNext]_vars

\* ------------------------------------ DetectionStats, DetectionHistory ----

\* Values of the results prop: DetectionResult[] with Detection[] inside.
Bboxes == {<<5, 0, 10, 20>>}
PropDetections ==
  { [class_id |-> id, class_name |-> ClassName(id), confidence |-> cf, bbox |-> b] :
      id \in ClassIds, cf \in {55, 95}, b \in Bboxes }
PropResults ==
  [detections : UNION { [1..n -> PropDetections] : n \in 0..MaxDets }, timestamp : {"t1"}]
ResultHistories == UNION { [1..n -> PropResults] : n \in 0..MaxResults }

\* A JavaScript number that is an integer, and the quotient a / b (not a
\* finite number when b is 0).
Number(n) == [num |-> n, den |-> 1]
Divide(a, b) == [num |-> a, den |-> b]

\* results.flatMap(r => r.detections)
RECURSIVE FlatMapDetections(_)
FlatMapDetections(rs) ==
  IF rs = <<>> THEN <<>> ELSE Head(rs).detections \o FlatMapDetections(Tail(rs))

\* detections.filter(d => d.class_name === name).length
RECURSIVE CountClassName(_, _)
CountClassName(ds, name) ==
  IF ds = <<>> THEN 0
  ELSE (IF Head(ds).class_name = name THEN 1 ELSE 0) + CountClassName(Tail(ds), name)

\* results.reduce((sum, result) => sum + f(result), 0) for the two uses above
\* the return: the number of detections, and those named name.
\* A total that counts the results instead of their detections.
ReduceLengthOfResults(rs) == Len(rs)

RECURSIVE ReduceLength(_)
ReduceLength(rs) ==
  IF rs = <<>> THEN 0 ELSE Len(Head(rs).detections) + ReduceLength(Tail(rs))

RECURSIVE ReduceCount(_, _)
ReduceCount(rs, name) ==
  IF rs = <<>> THEN 0
  ELSE CountClassName(Head(rs).detections, name) + ReduceCount(Tail(rs), name)

\* allDetections.reduce((sum, d) => sum + d.confidence, 0)
RECURSIVE SumConfidence(_)
SumConfidence(ds) ==
  IF ds = <<>> THEN 0 ELSE Head(ds).confidence + SumConfidence(Tail(ds))

\* An average computed without looking at the length first.
AvgConfidenceUnguarded(allDetections) ==
  Divide(SumConfidence(allDetections), Len(allDetections))

\* allDetections.length > 0 ? sum / allDetections.length : 0
AvgConfidence(allDetections) ==
  IF Len(allDetections) > 0
  THEN Divide(SumConfidence(allDetections), Len(allDetections))
  ELSE Number(0)

\* The statistics DetectionStats computes from its results prop.
DetectionStats(rs) ==
  [computed |-> TRUE,
   totalDetections |-> ReduceLength(rs),
   abnormalCount |-> ReduceCount(rs, "abnormal"),
   normalCount |-> ReduceCount(rs, "normal"),
   avgConfidence |-> AvgConfidence(FlatMapDetections(rs))]

\* DetectionStats renders.
RenderDetectionStats ==
  /\ stats' = DetectionStats(resultsProp)
  /\ stats' # stats
  /\ UNCHANGED << resultsProp, exportData >>
  /\ UNCHANGED pollVars
  /\ UNCHANGED appVars
  /\ UNCHANGED uiVars
  /\ UNCHANGED loopVars
  /\ UNCHANGED callVars
  /\ UNCHANGED << events, lastPub, evicted, lastCall, failStreak >>
  /\ UNCHANGED progressVars
  /\ UNCHANGED mountVars

\* The parent renders the components with one more result in the results
\* prop: DetectionStats runs again and computes its statistics from the new
\* prop (they are constants of the render, not state).
ResultsAppended(result) ==
  /\ Len(resultsProp) < MaxResults
  /\ resultsProp' = Append(resultsProp, result)
  /\ stats' = DetectionStats(resultsProp')
  /\ UNCHANGED exportData
  /\ UNCHANGED pollVars
  /\ UNCHANGED appVars
  /\ UNCHANGED uiVars
  /\ UNCHANGED loopVars
  /\ UNCHANGED callVars
  /\ UNCHANGED << events, lastPub, evicted, lastCall, failStreak >>
  /\ UNCHANGED progressVars
  /\ UNCHANGED mountVars

\* JSON text as JSON.stringify writes it, kept as its syntax tree: numbers,
\* strings, arrays of texts, objects as a sequence of <<key, text>> members.
\* A number that is not finite is written as null.
JsonNumber(n) == [json |-> "number", value |-> n]
JsonString(str) == [json |-> "string", value |-> str]
JsonArray(items) == [json |-> "array", items |-> items]
JsonObject(members) == [json |-> "object", members |-> members]

\* JSON.parse of a text: arrays become sequences, objects become records
\* over their keys (for a repeated key the last member wins).
RECURSIVE JsonParse(_)
JsonParse(text) ==
  IF text.json = "array" THEN [i \in DOMAIN text.items |-> JsonParse(text.items[i])]
  ELSE IF text.json = "object"
  THEN [key \in { text.members[i][1] : i \in DOMAIN text.members } |->
          LET last == CHOOSE i \in DOMAIN text.members :
                        /\ text.members[i][1] = key
                        /\ \A j \in DOMAIN text.members :
                             text.members[j][1] = key => j <= i
          IN JsonParse(text.members[last][2])]
  ELSE text.value

\* A detection exported with its confidence cut to one decimal.
ExportDetectionRounded(d) ==
  JsonObject(<< <<"class_name", JsonString(d.class_name)>>,
                <<"confidence", JsonNumber((d.confidence \div 10) * 10)>>,
                <<"bbox", JsonArray([i \in DOMAIN d.bbox |-> JsonNumber(d.bbox[i])])>> >>)

\* d => ({class_name: d.class_name, confidence: d.confidence, bbox: d.bbox}), stringified
ExportDetection(d) ==
  JsonObject(<< <<"class_name", JsonString(d.class_name)>>,
                <<"confidence", JsonNumber(d.confidence)>>,
                <<"bbox", JsonArray([i \in DOMAIN d.bbox |-> JsonNumber(d.bbox[i])])>> >>)

\* result => ({timestamp, detections_count, detections}), stringified
ExportResult(result) ==
  JsonObject(<< <<"timestamp", JsonString(result.timestamp)>>,
                <<"detections_count", JsonNumber(Len(result.detections))>>,
                <<"detections", JsonArray([k \in DOMAIN result.detections |->
                                             ExportDetection(result.detections[k])])>> >>)

\* JSON.stringify(exportData, null, 2) for the exportData built from rs.
ExportJson(rs) ==
  JsonObject(<< <<"timestamp", JsonString("now")>>,
                <<"total_results", JsonNumber(Len(rs))>>,
                <<"results", JsonArray([i \in DOMAIN rs |-> ExportResult(rs[i])])>> >>)

\* Click on the export button (rendered while results is not empty).
HandleExportResults ==
  /\ resultsProp # <<>>
  /\ exportData' = [computed |-> TRUE, parsed |-> JsonParse(ExportJson(resultsProp))]
  /\ exportData' # exportData
  /\ UNCHANGED << resultsProp, stats >>
  /\ UNCHANGED pollVars
  /\ UNCHANGED appVars
  /\ UNCHANGED uiVars
  /\ UNCHANGED loopVars
  /\ UNCHANGED callVars
  /\ UNCHANGED << events, lastPub, evicted, lastCall, failStreak >>
  /\ UNCHANGED progressVars
  /\ UNCHANGED mountVars

\* DetectionStats and DetectionHistory given a results prop.
PropsNext ==
  \/ RenderDetectionStats
  \/ \E result \in PropResults : ResultsAppended(result)
  \/ HandleExportResults

InitProps ==
  /\ resultsProp \in ResultHistories
  /\ stats = NotComputed
  /\ exportData = NotComputed
  /\ InitPoll
  /\ isRunning = FALSE
  /\ inputSource = "null"
  /\ classes = <<>>
  /\ detectionResults = <<>>
  /\ currentFrame = "null"
  /\ loading = TRUE
  /\ error = "null"
  /\ processingImage = FALSE
  /\ detectionBoxes = <<>>
  /\ frameUpdateRef = 0
  /\ timers = {}
  /\ timerSeq = 0
  /\ inFlight = EmptyBag
  /\ initCalls = SetToBag({"mount"})
  /\ resetCalls = 0
  /\ camCalls = EmptyBag
  /\ vidDialogs = EmptyBag
  /\ vidLoads = EmptyBag
  /\ imgDialogs = EmptyBag
  /\ imgCalls = EmptyBag
  /\ stopCalls = 0
  /\ events = 0
  /\ lastPub = <<>>
  /\ evicted = 0
  /\ lastCall = NoCall
  /\ failStreak = 0
  /\ progressIntervals = 0
  /\ imageProcessingProgress = 0
  /\ mounted = TRUE
  /\ cleanupStopCalls = 0

SpecProps == InitProps /\ [][PropsNext]_vars

\* Arguments a direct call of updateClassConfidence or toggleClassEnabled can
\* carry (classId: number, confidence: number): the values the controls
\* pass, an id that is not in the class store, a threshold below 0 and one
\* above 1.
CallClassIds == ClassIds \cup {2}
CallConfidences == ThresholdLevels \cup {-10, 150}

\* updateClassConfidence(classId, confidence) called with any arguments: the
\* body of the handler, without the slider in front of it.
CallUpdateClassConfidence(classId, confidence) ==
  /\ Rendered
  /\ UserEvent
  /\ classes' = WithConfidence(classes, classId, confidence)
  /\ NoPublish
  /\ UNCHANGED << isRunning, inputSource, detectionResults, currentFrame, loading,
                  error, processingImage, detectionBoxes >>
  /\ UNCHANGED loopVars
  /\ UNCHANGED callVars
  /\ UNCHANGED failStreak
  /\ UNCHANGED progressVars
  /\ UNCHANGED mountVars
  /\ UNCHANGED propVars

\* toggleClassEnabled(classId) called with any argument.
CallToggleClassEnabled(classId) ==
  /\ Rendered
  /\ UserEvent
  /\ classes' = WithToggled(classes, classId)
  /\ NoPublish
  /\ UNCHANGED << isRunning, inputSource, detectionResults, currentFrame, loading,
                  error, processingImage, detectionBoxes >>
  /\ UNCHANGED loopVars
  /\ UNCHANGED callVars
  /\ UNCHANGED failStreak
  /\ UNCHANGED progressVars
  /\ UNCHANGED mountVars
  /\ UNCHANGED propVars

ConfigureNext ==
  \/ \E id \in CallClassIds, v \in CallConfidences : CallUpdateClassConfidence(id, v)
  \/ \E id \in CallClassIds : CallToggleClassEnabled(id)

\* The application with its two configuration handlers also called directly.
SpecConfigure == Init /\ [][Next \/ ConfigureNext]_vars

\* The processing of image files, with the ticks of its progress interval.
ImageNext ==
  \/ InitializeOk("mount")
  \/ InitializeFail("mount")
  \/ SelectImage
  \/ \E c \in BagToSet(imgDialogs) : ImageDialogNoFile(c)
  \/ \E c \in BagToSet(imgDialogs) : ImageDialogPick(c)
  \/ \E c \in BagToSet(imgCalls) : \E dets \in BackendDetections(c.classes) : ProcessImageOk(c, dets)
  \/ \E c \in BagToSet(imgCalls) : ProcessImageFail(c)
  \/ ClearImageResults
  \/ ProgressTick

SpecImage == Init /\ [][ImageNext]_vars

\* The `state` constant of the first render, which the mount effect
\* (dependencies []) and its cleanup close over: the initial useState value.
MountState == [isRunning |-> FALSE, classes |-> <<>>, error |-> "null"]

\* YoloApp is unmounted: the cleanup of the mount effect clears the timer of
\* frameUpdateRef and, if state.isRunning, invokes stop_detection.
Unmount ==
  /\ mounted
  /\ mounted' = FALSE
  /\ timers' = { t \in timers : t.id # frameUpdateRef }
  /\ cleanupStopCalls' = IF ClosureIsRunning(MountState)
                         THEN cleanupStopCalls + 1 ELSE cleanupStopCalls
  /\ NoPublish
  /\ UNCHANGED << frameUpdateRef, timerSeq, inFlight >>
  /\ UNCHANGED uiVars
  /\ UNCHANGED callVars
  /\ UNCHANGED << events, failStreak >>
  /\ UNCHANGED progressVars
  /\ UNCHANGED propVars

\* The application up to the moment it is unmounted.
SpecUnmount == Init /\ [][(mounted /\ Next) \/ Unmount]_vars

\* The steps of updateFrame past its isRunning guard.
LoopNext ==
  \/ \E c \in BagToSet(inFlight) : \E dets \in BackendDetections(c.classes) : GetNextFrameOk(c, dets)
  \/ \E c \in BagToSet(inFlight) : GetNextFrameNoFrame(c)
  \/ \E c \in BagToSet(inFlight) : GetNextFrameFail(c)
  \/ \E t \in timers : TimerFires(t)

\* The application with the steps of updateFrame past its guard allowed.
SpecLoop == Init /\ [][Next \/ LoopNext]_vars

\* A history of n system messages.
SystemFill(n) == [i \in 1..n |-> SystemResult]

\* Histories at or near capacity that an idle application can hold: system
\* messages (file-drop hints, start and stop messages) around the entries of
\* one processed image.
HistorySeeds ==
  { SystemFill(HistoryKeep - 1),
    SystemFill(HistoryKeep + 1),
    <<NoneResult>> \o SystemFill(HistoryKeep),
    SystemFill(9) \o <<[className |-> "abnormal", confidence |-> 95]>> \o SystemFill(9) }

\* The idle application after a successful initialisation, holding a history
\* of HistorySeeds.
InitHistory ==
  /\ isRunning = FALSE
  /\ inputSource = "null"
  /\ classes = DefaultClasses
  /\ detectionResults \in HistorySeeds
  /\ currentFrame = "null"
  /\ loading = FALSE
  /\ error = "null"
  /\ processingImage = FALSE
  /\ detectionBoxes = <<>>
  /\ frameUpdateRef = 0
  /\ timers = {}
  /\ timerSeq = 0
  /\ inFlight = EmptyBag
  /\ initCalls = EmptyBag
  /\ resetCalls = 0
  /\ camCalls = EmptyBag
  /\ vidDialogs = EmptyBag
  /\ vidLoads = EmptyBag
  /\ imgDialogs = EmptyBag
  /\ imgCalls = EmptyBag
  /\ stopCalls = 0
  /\ events = 0
  /\ lastPub = <<>>
  /\ evicted = 0
  /\ lastCall = NoCall
  /\ failStreak = 0
  /\ progressIntervals = 0
  /\ imageProcessingProgress = 0
  /\ mounted = TRUE
  /\ cleanupStopCalls = 0
  /\ resultsProp = <<>>
  /\ stats = NotComputed
  /\ exportData = NotComputed
  /\ InitPoll

SpecHistory == InitHistory /\ [][Next]_vars

\* ------------------------------------------------ App: pollDetectionState ----

\* The class names treated as abnormal by the poll, and the names explored:
\* one of them and one other.
AbnormalNames == {"person", "car", "truck", "fire hydrant", "stop sign"}
PollClassNames == {"person", "dog"}

\* The results one analysed frame can leave in the detection state: each
\* result carries the number of its acquisition.
FrameResults(first) ==
  { rs \in UNION { [1..n -> [id : 1..MaxAcquired, class_name : PollClassNames,
                             confidence : {55, 95}]] : n \in 0..MaxDets } :
      \A k \in DOMAIN rs : rs[k].id = first + k }

\* The backend analyses a frame: the results of its detection state are
\* replaced by those of the frame.
BackendAcquires(rs) ==
  /\ acquired + Len(rs) <= MaxAcquired
  /\ backendResults' = rs
  /\ backendResults' # backendResults
  /\ acquired' = acquired + Len(rs)
  /\ UNCHANGED << polls, pollCount, detectionState, resultsText >>
  /\ UNCHANGED << resultsProp, stats, exportData >>
  /\ UNCHANGED appVars
  /\ UNCHANGED uiVars
  /\ UNCHANGED loopVars
  /\ UNCHANGED callVars
  /\ UNCHANGED << events, lastPub, evicted, lastCall, failStreak >>
  /\ UNCHANGED progressVars
  /\ UNCHANGED mountVars

\* isAbnormal ? '异常' : '正常' for a result of the detection state
Classification(result) ==
  IF result.class_name \in AbnormalNames THEN "abnormal" ELSE "normal"

\* state.results.map(result => `检测结果: ${classification} (置信度: ...)!\n`):
\* one line per result, in the order of the results.  `of` is the acquisition
\* number of the result the line was written for (not part of the text).
ResultText(rs) ==
  [k \in DOMAIN rs |-> [classification |-> Classification(rs[k]),
                         confidence |-> rs[k].confidence,
                         of |-> rs[k].id]]

\* The interval of the mount effect fires (every 1000 ms):
\* pollDetectionState runs up to its await of get_detection_state.
PollDetectionState ==
  /\ pollCount < MaxPolls
  /\ pollCount' = pollCount + 1
  /\ polls' = polls + 1
  /\ UNCHANGED << backendResults, acquired, detectionState, resultsText >>
  /\ UNCHANGED << resultsProp, stats, exportData >>
  /\ UNCHANGED appVars
  /\ UNCHANGED uiVars
  /\ UNCHANGED loopVars
  /\ UNCHANGED callVars
  /\ UNCHANGED << events, lastPub, evicted, lastCall, failStreak >>
  /\ UNCHANGED progressVars
  /\ UNCHANGED mountVars

\* get_detection_state resolves with the backend's current state: it is
\* stored, and when it has results a line for each is appended to the log.
GetDetectionStateOk ==
  /\ polls > 0
  /\ polls' = polls - 1
  /\ detectionState' = [is_running |-> backendRunning, results |-> backendResults]
  /\ resultsText' = IF Len(backendResults) > 0
                    THEN resultsText \o ResultText(backendResults)
                    ELSE resultsText
  /\ UNCHANGED << backendResults, acquired, pollCount >>
  /\ UNCHANGED << resultsProp, stats, exportData >>
  /\ UNCHANGED appVars
  /\ UNCHANGED uiVars
  /\ UNCHANGED loopVars
  /\ UNCHANGED callVars
  /\ UNCHANGED << events, lastPub, evicted, lastCall, failStreak >>
  /\ UNCHANGED progressVars
  /\ UNCHANGED mountVars

\* get_detection_state rejects: the catch only logs to the console.
GetDetectionStateFail ==
  /\ polls > 0
  /\ polls' = polls - 1
  /\ UNCHANGED << backendResults, acquired, pollCount, detectionState, resultsText >>
  /\ UNCHANGED << resultsProp, stats, exportData >>
  /\ UNCHANGED appVars
  /\ UNCHANGED uiVars
  /\ UNCHANGED loopVars
  /\ UNCHANGED callVars
  /\ UNCHANGED << events, lastPub, evicted, lastCall, failStreak >>
  /\ UNCHANGED progressVars
  /\ UNCHANGED mountVars

PollNext ==
  \/ \E rs \in FrameResults(acquired) : BackendAcquires(rs)
  \/ PollDetectionState
  \/ GetDetectionStateOk
  \/ GetDetectionStateFail

\* App's poll of the detection state, with a backend that analyses frames.
SpecPoll == Init /\ [][PollNext]_vars

\* ------------------------------------------------------- App: handlers ----

\* The line `错误: ${error}\n` appended to the result log.
ErrorLine == [classification |-> "error", confidence |-> 0, of |-> 0]

\* The variables no handler of App touches.
AppUnchanged ==
  /\ UNCHANGED << backendResults, acquired, polls, pollCount, detectionState >>
  /\ UNCHANGED << resultsProp, stats, exportData >>
  /\ UNCHANGED uiVars
  /\ UNCHANGED loopVars
  /\ UNCHANGED callVars
  /\ UNCHANGED << lastPub, evicted, lastCall, failStreak >>
  /\ UNCHANGED progressVars
  /\ UNCHANGED mountVars

\* Click on a source button: handleStartCamera, handleSelectVideo or
\* handleSelectImage runs up to its first await, invoke('stop_detection').
HandleSelectSource(source) ==
  /\ UserEvent
  /\ appCalls' = Add(appCalls, [handler |-> source, stage |-> "stop_detection"])
  /\ UNCHANGED << resultsText, backendRunning, selectedSource >>
  /\ AppUnchanged

\* Click on the start button (disabled without a selected source or while
\* the polled state is running): handleStartDetection invokes start_detection.
HandleStartDetection ==
  /\ UserEvent
  /\ selectedSource # "null"
  /\ ~detectionState.is_running
  /\ appCalls' = Add(appCalls, [handler |-> "start", stage |-> "start_detection"])
  /\ UNCHANGED << resultsText, backendRunning, selectedSource >>
  /\ AppUnchanged

\* Click on the stop button (disabled unless the polled state is running):
\* handleStopDetection invokes stop_detection.
HandleStopDetection ==
  /\ UserEvent
  /\ detectionState.is_running
  /\ appCalls' = Add(appCalls, [handler |-> "stop", stage |-> "stop_detection"])
  /\ UNCHANGED << resultsText, backendRunning, selectedSource >>
  /\ AppUnchanged

\* The command a handler call awaits resolves.  After stop_detection a
\* source handler invokes its open command (start_camera, select_video_file,
\* select_image_file); after that it sets selectedSource and invokes
\* start_detection (handleStartDetection, processImage).
AppInvokeOk(call) ==
  /\ BagIn(call, appCalls)
  /\ IF call.stage = "stop_detection"
     THEN /\ backendRunning' = FALSE
          /\ appCalls' = IF call.handler = "stop"
                         THEN Remove(appCalls, call)
                         ELSE Add(Remove(appCalls, call), [call EXCEPT !.stage = "open"])
          /\ UNCHANGED selectedSource
     ELSE IF call.stage = "open"
     THEN /\ selectedSource' = call.handler
          /\ appCalls' = Add(Remove(appCalls, call), [call EXCEPT !.stage = "start_detection"])
          /\ UNCHANGED backendRunning
     ELSE /\ backendRunning' = TRUE
          /\ appCalls' = Remove(appCalls, call)
          /\ UNCHANGED selectedSource
  /\ UNCHANGED << resultsText, events >>
  /\ AppUnchanged

\* The command a handler call awaits rejects.  A rejected start_detection is
\* caught in handleStartDetection / processImage, which appends an error
\* line to the result log; a rejected stop_detection or open command is
\* caught by the handler's own catch, which only logs to the console.
AppInvokeFail(call) ==
  /\ BagIn(call, appCalls)
  /\ appCalls' = Remove(appCalls, call)
  /\ resultsText' = IF call.stage = "start_detection"
                    THEN Append(resultsText, ErrorLine)
                    ELSE resultsText
  /\ UNCHANGED << backendRunning, selectedSource, events >>
  /\ AppUnchanged

\* App: its poll and its handlers.
AppNext ==
  \/ PollNext
  \/ \E source \in {"camera", "video", "image"} : HandleSelectSource(source)
  \/ HandleStartDetection
  \/ HandleStopDetection
  \/ \E call \in BagToSet(appCalls) : AppInvokeOk(call)
  \/ \E call \in BagToSet(appCalls) : AppInvokeFail(call)

SpecApp == Init /\ [][AppNext]_vars

\* ------------------------------------------------------------- claims ----

\* The frame loop never runs: updateFrame reads isRunning from the closure of
\* the render in which the start button was clicked, where it is false.
FrameLoopDead == inFlight = EmptyBag /\ timers = {} /\ frameUpdateRef = 0

\* C1: the history never holds more than 20 entries, and a step that
\* publishes entries leaves exactly the newest 20 of the old history followed
\* by the published entries, in that order (the oldest are dropped first).
C1_HistoryBounded ==
  [][ /\ Len(detectionResults') <= HistoryKeep + 1
      /\ lastPub' # <<>> =>
           LET all == detectionResults \o lastPub'
               n == IF Len(all) <= HistoryKeep + 1 THEN Len(all) ELSE HistoryKeep + 1
           IN /\ Len(detectionResults') = n
              /\ \A i \in 1..n : detectionResults'[i] = all[Len(all) - n + i] ]_vars

\* C1 witness: an entry was published to a full history and pushed the oldest out.
C1_Witness == evicted > 0 /\ Len(detectionResults) = HistoryKeep + 1

\* A step of which no get_next_frame call and no tick timer is new.
NoNewTick ==
  /\ \A c \in BagToSet(inFlight') : CopiesIn(c, inFlight') <= CopiesIn(c, inFlight)
  /\ timers' \subseteq timers

C3_SchedulerStarts ==
  (isRunning /\ inputSource \in {"camera", "video"} /\ stopCalls = 0)
    => (inFlight # EmptyBag \/ timers # {})

C5_SingleSession == isRunning => (camCalls = EmptyBag /\ vidLoads = EmptyBag)

\* C6 (as claimed): an open request (start_camera_detection or
\* load_video_source) is issued only when the previous session has been stopped.
C6_StopBeforeOpen ==
  [][ (StartCamera \/ \E c \in BagToSet(vidDialogs) : VideoDialogPick(c)) => ~isRunning ]_vars

C8_StopIdempotent ==
  [][ (StopDetectionOk /\ ~isRunning)
      => UNCHANGED << isRunning, inputSource, detectionResults, error >> ]_vars

\* The published entries that are classifications of a detection.
IsClassification(r) == r.className \in {ClassName(id) : id \in ClassIds}

\* Whether the class named name is configured in cs with a threshold that
\* confidence reaches.
ReachesThreshold(cs, name, confidence) ==
  \E i \in DOMAIN cs : cs[i].name = name /\ confidence >= cs[i].confidence

\* Whether the class named name is configured and enabled in cs.
IsEnabled(cs, name) ==
  \E i \in DOMAIN cs : cs[i].name = name /\ cs[i].enabled

\* C9 (as claimed): acceptance follows the configured threshold of the class:
\* every published classification reaches the threshold of the class it is
\* published as, in the current configuration or in the one its detection
\* call was made with.
C9_ThresholdGoverns ==
  \A k \in DOMAIN lastPub :
    IsClassification(lastPub[k]) =>
      \/ ReachesThreshold(classes, lastPub[k].className, lastPub[k].confidence)
      \/ ReachesThreshold(lastCall.classes, lastPub[k].className, lastPub[k].confidence)

\* C10 (as claimed): the class of every published classification is enabled,
\* in the current configuration or in the one its detection call was made with.
C10_DisabledNeverPublished ==
  \A k \in DOMAIN lastPub :
    IsClassification(lastPub[k]) =>
      \/ IsEnabled(classes, lastPub[k].className)
      \/ IsEnabled(lastCall.classes, lastPub[k].className)

\* The get_next_frame calls a step issues: those in flight after it beyond
\* the ones in flight before it.
NewTicks == { c \in BagToSet(inFlight') : CopiesIn(c, inFlight') > CopiesIn(c, inFlight) }

\* C11 (as claimed): a configuration change made while a streaming session
\* runs is picked up by the next tick: after the change a tick is pending (a
\* call in flight or a timer scheduled), and every get_next_frame call is
\* issued with the class configuration current when it is issued.
C11_ConfigUsedByNextTick ==
  [][ /\ ( /\ classes' # classes
           /\ isRunning /\ isRunning'
           /\ inputSource \in {"camera", "video"}
           /\ stopCalls = 0 )
         => (inFlight' # EmptyBag \/ timers' # {})
      /\ \A c \in NewTicks : c.classes = classes' ]_vars

\* The classes other than classId are as they were, and the addressed class
\* keeps its id and name.
OnlyClassChanged(classId) ==
  /\ DOMAIN classes' = DOMAIN classes
  /\ \A i \in DOMAIN classes :
       /\ classes[i].id # classId => classes'[i] = classes[i]
       /\ classes'[i].id = classes[i].id
       /\ classes'[i].name = classes[i].name

\* C12: updateClassConfidence and toggleClassEnabled leave the history, the
\* detection boxes, the current frame and the session state as they were and
\* change only the addressed class: the slider its threshold, the switch its
\* enabled flag.
C12_ConfigureKeepsPublished ==
  [][ \A id \in ClassIds :
        /\ (\E v \in ThresholdLevels : UpdateClassConfidence(id, v)) =>
             /\ UNCHANGED << detectionResults, detectionBoxes, currentFrame,
                             isRunning, inputSource >>
             /\ OnlyClassChanged(id)
             /\ \A i \in DOMAIN classes : classes'[i].enabled = classes[i].enabled
        /\ ToggleClassEnabled(id) =>
             /\ UNCHANGED << detectionResults, detectionBoxes, currentFrame,
                             isRunning, inputSource >>
             /\ OnlyClassChanged(id)
             /\ \A i \in DOMAIN classes : classes'[i].confidence = classes[i].confidence ]_vars

\* A processed image whose published classification the current configuration
\* no longer admits: the configuration was changed after the request.
C12_Witness ==
  /\ detectionBoxes # <<>>
  /\ imgCalls = EmptyBag
  /\ \E k \in DOMAIN detectionResults :
       /\ IsClassification(detectionResults[k])
       /\ \A i \in DOMAIN classes :
            ~classes[i].enabled \/ classes[i].confidence > detectionResults[k].confidence

\* Whether (classId, confidence) is input configureClass must reject: the id
\* is not in the class store, or the threshold is outside [0, 1].
BadConfigureInput(classId, confidence) ==
  \/ \A i \in DOMAIN classes : classes[i].id # classId
  \/ confidence < 0
  \/ confidence > 100

C14_ResetRestoresDefaults ==
  [][ (InitializeOk("reset") \/ InitializeFail("reset"))
        => /\ classes' = DefaultClasses
           /\ detectionResults' = <<>> ]_vars

\* C15: clearResults leaves the history empty and changes nothing else: the
\* session state, the class configuration, the frame shown and every pending
\* tick and call are as they were.
C15_ClearOnlyHistory ==
  [][ ClearResults =>
        /\ detectionResults' = <<>>
        /\ UNCHANGED << isRunning, inputSource, classes, currentFrame, loading, error,
                        processingImage, detectionBoxes >>
        /\ UNCHANGED loopVars
        /\ UNCHANGED callVars ]_vars

\* The history was cleared while a camera session runs.
C15_Witness == detectionResults = <<>> /\ isRunning /\ inputSource = "camera"

\* C16 (as claimed): when the processing of an image file completes, exactly
\* one result is added to the history, no frame-update tick is started or
\* scheduled, and the session is not Running.
C16_ImageSessionOneResult ==
  [][ (\E c \in BagToSet(imgCalls) : \E dets \in BackendDetections(c.classes) :
         ProcessImageOk(c, dets))
        => /\ Len(lastPub') = 1
           /\ NewTicks = {}
           /\ timers' \subseteq timers
           /\ ~isRunning' ]_vars

C18_EmptyStats ==
  (stats # NotComputed /\ resultsProp = <<>>) =>
    /\ stats.totalDetections = 0
    /\ stats.avgConfidence.den # 0
    /\ stats.avgConfidence.num = 0
    /\ stats.abnormalCount = 0
    /\ stats.normalCount = 0

\* The statistics of the empty history have been computed.
C18_Witness == stats # NotComputed /\ resultsProp = <<>>

StartFailures == {"camera", "video"}

\* C20 (as claimed): after a failed start of an idle session the start
\* controls are enabled again (the main view is rendered and the session is
\* not running), and a start requested while such a failure reason was shown
\* leaves, when its open succeeds, the session Running with that reason no
\* longer recorded.
C20_RetryAfterFailure ==
  [][ /\ ( /\ ~isRunning
           /\ \/ \E c \in BagToSet(camCalls) : StartCameraFail(c)
              \/ \E c \in BagToSet(vidLoads) : LoadVideoFail(c) )
         => (~loading' /\ ~isRunning' /\ error' \in StartFailures)
      /\ \A c \in BagToSet(camCalls) \cup BagToSet(vidLoads) :
           ( /\ c.error \in StartFailures
             /\ \/ (BagIn(c, camCalls) /\ StartCameraOk(c))
                \/ (BagIn(c, vidLoads) /\ LoadVideoOk(c)) )
           => (isRunning' /\ error' # c.error) ]_vars

NewTimers == timers' \ timers

C23_OrderedNoDuplicates ==
  [][ /\ (lastCall' # NoCall /\ lastCall'.dets # <<>>) =>
           LET n == Len(lastCall'.dets)  h == Len(detectionResults') IN
           /\ h = Len(detectionResults) + n \/ h = HistoryKeep + 1
           /\ \A k \in 1..n :
                detectionResults'[h - n + k].confidence = lastCall'.dets[k].confidence
      /\ \A i, j \in DOMAIN resultsText' :
           (i < j /\ resultsText'[i] # ErrorLine /\ resultsText'[j] # ErrorLine)
             => resultsText'[i].of < resultsText'[j].of ]_vars

DetectionIndex ==
  { p \in (DOMAIN resultsProp) \X (1..MaxDets) : p[2] \in DOMAIN resultsProp[p[1]].detections }

\* The detection at a position of DetectionIndex.
DetectionAt(p) == resultsProp[p[1]].detections[p[2]]

\* The sum of the confidences of the detections at the positions S.
RECURSIVE ConfidenceOver(_)
ConfidenceOver(S) ==
  IF S = {} THEN 0
  ELSE LET p == CHOOSE q \in S : TRUE
       IN DetectionAt(p).confidence + ConfidenceOver(S \ {p})

\* C25: whatever the results prop is, the statistics computed are those of
\* it: the total is the number of detections of its entries, each per-class
\* count is the number of detections with that class name, the per-class
\* counts sum to no more than the total, and when the total is positive the
\* average confidence is the sum of all confidences divided by the total.
C25_StatsFollowHistory ==
  stats # NotComputed =>
    /\ stats.totalDetections = Cardinality(DetectionIndex)
    /\ stats.abnormalCount =
         Cardinality({ p \in DetectionIndex : DetectionAt(p).class_name = "abnormal" })
    /\ stats.normalCount =
         Cardinality({ p \in DetectionIndex : DetectionAt(p).class_name = "normal" })
    /\ stats.abnormalCount + stats.normalCount <= stats.totalDetections
    /\ stats.totalDetections > 0 =>
         /\ stats.avgConfidence.den # 0
         /\ stats.avgConfidence.num * stats.totalDetections
              = ConfidenceOver(DetectionIndex) * stats.avgConfidence.den

\* Statistics computed for a history that holds detections of both classes.
C25_Witness ==
  /\ stats # NotComputed
  /\ Len(resultsProp) = MaxResults
  /\ stats.abnormalCount > 0 /\ stats.normalCount > 0

\* C26 (as claimed): a start, stop, reset or image-processing operation that
\* fails is made visible: in YoloApp the error state is set by the step in
\* which the failure is handled, in App a line is added to the result log.
C26_FailuresVisible ==
  [][ /\ ( \/ \E c \in BagToSet(camCalls) : StartCameraFail(c)
           \/ \E c \in BagToSet(vidDialogs) : VideoDialogFail(c)
           \/ \E c \in BagToSet(vidLoads) : LoadVideoFail(c)
           \/ \E c \in BagToSet(imgCalls) : ProcessImageFail(c)
           \/ StopDetectionFail
           \/ ResetConfigurationFail
           \/ InitializeFail("reset") )
         => error' # "null"
      /\ (\E call \in BagToSet(appCalls) : AppInvokeFail(call))
         => (Len(resultsText') = Len(resultsText) + 1
             /\ resultsText'[Len(resultsText')] = ErrorLine) ]_vars

\* C27 (as claimed): whenever the session is running its input source is the
\* camera or a video.
C27_RunningSourceIsStream == isRunning => inputSource \in {"camera", "video"}

\* C28 (as claimed): the step in which processImageFromPath finishes, on
\* success or on failure of process_single_image, clears the progress
\* interval the call created; no interval is active while processingImage is
\* false, and the progress is incremented only while an image is processed.
C28_ProgressIntervalCleared ==
  [][ /\ ( \/ \E c \in BagToSet(imgCalls) : \E dets \in BackendDetections(c.classes) :
                ProcessImageOk(c, dets)
           \/ \E c \in BagToSet(imgCalls) : ProcessImageFail(c) )
         => progressIntervals' = progressIntervals - 1
      /\ ~processingImage' => progressIntervals' = 0
      /\ ProgressTick => processingImage ]_vars

\* C29 (as claimed): when the component is unmounted while a session is
\* running, the cleanup leaves no timer of frameUpdateRef pending and issues
\* a stop_detection call.
C29_UnmountStopsSession ==
  [][ (Unmount /\ isRunning)
        => /\ \A t \in timers' : t.id # frameUpdateRef
           /\ cleanupStopCalls' = cleanupStopCalls + 1 ]_vars

====
